---- MODULE Spec2Model ----
(***************************************************************************)
(* xpipe: reads stdin into a fixed buffer, and pipes each block of         *)
(* complete lines to a freshly spawned command (src/xpipe.c).              *)
(*                                                                         *)
(* The model follows run(), pipe_lines(), pipe_data()/pipe_exec(),         *)
(* open_pipe(), write_all(), try_read() and main().  Every system call is  *)
(* one step whose outcome (bytes transferred, timeout, error, exit status) *)
(* is chosen nondeterministically.  A failing write() is the -1 return     *)
(* that write_all sees; the child runs concurrently with the parent from   *)
(* fork() until waitpid() collects it.                                     *)
(***************************************************************************)
EXTENDS Integers, Sequences, FiniteSets, TLC

(* ------------------------------ bounds --------------------------------- *)

\* Longest input stream considered.
MaxLen == 4

\* Largest explicit -b bufsize considered (the default is used as well).
MaxBuf == 3

\* Largest -t timeout, in clock ticks, considered where time is observed.
MaxTimeout == 2

(* ------------------------- program constants --------------------------- *)

\* '\n', the only line delimiter.
NL == 10

\* .bufsize default of init().
DefaultBufsize == 8192

\* .timeout default of init(): (time_t) -1, no timeout imposed.
NoTimeout == -1

\* exit_panic: status of a child that could not bind stdin or exec.
exit_panic == 255

\* Bytes of the input stream: the newline and two ordinary bytes.
Byte == {NL, 97, 98}

\* Exit codes a command may return by itself (0, and 123 as in the
\* status-code test), and the signals that may kill it (SIGKILL).
CommandCodes == {0, 123}
Signals == {9}

(* ------------------------------ state ----------------------------------- *)

VARIABLES
    input,      \* the whole stream that stdin will yield
    pos,        \* number of bytes of input consumed by read()
    eof,        \* read() has returned 0
    bufsize,    \* xpipe->bufsize
    timeout,    \* xpipe->timeout
    buf,        \* initialized prefix of xpipe->buf (the rest is never read)
    avail,      \* run(): avail
    nb_read,    \* run(): nb_read of the latest iteration
    pc,         \* position of the parent process
    caller,     \* who called pipe_data: "lines" (pipe_lines) or "final" (run)
    use,        \* pipe_data: size
    wr,         \* write_all: bytes of data already written
    pipe_wr,    \* the write end of the pipe is open in the parent
    child,      \* "none", "forked", "running", "zombie", "reaped"
    status,     \* wait status of the child, <<kind, value>>
    pipe_ret,   \* return value of the current/latest pipe_data call (2: none yet)
    chunks,     \* byte ranges for which a child has been spawned, in order
    childIn,    \* bytes written to the stdin of each spawned child
    heldAt,     \* <<from, to>> stream ranges pending at a timeout without newline
    errmsg,     \* diagnostic printed by run()
    exitStatus, \* exit status of xpipe (-1 while running)
    live,       \* children forked and not yet collected by waitpid
    optb,       \* the text of the -b option while init() has not parsed it
    optt,       \* the text of the -t option while init() has not parsed it
    command,    \* argv + optind holds a command
    wseen,      \* what write_all has met until its chunk is closed off:
                \* "EINTR", "partial"
    errno,      \* errno as the latest failing try_read left it
    idle,       \* time spent in the current wait_input (select)
    quiet,      \* time since a byte was last received (up to AgeCap)
    age         \* time since the first byte received after the latest
                \* flush decision (up to AgeCap), -1 when there is none

vars == <<input, pos, eof, bufsize, timeout, buf, avail, nb_read, pc, caller,
          use, wr, pipe_wr, child, status, pipe_ret, chunks, childIn, heldAt,
          errmsg, exitStatus, live, optb, optt, command, wseen, errno, idle,
          quiet, age>>

\* The command line.
args == <<optb, optt, command>>

\* The clocks; they stand still where time is not observed.
clock == <<idle, quiet, age>>

(* ----------------------------- helpers ---------------------------------- *)

Min(a, b) == IF a < b THEN a ELSE b

Max(a, b) == IF a > b THEN a ELSE b

RECURSIVE Flatten(_)
Flatten(ss) == IF ss = <<>> THEN <<>> ELSE Head(ss) \o Flatten(Tail(ss))

Streams == UNION {[1..n -> Byte] : n \in 0..MaxLen}

\* The inputs considered where time or fairness is observed.
ShortStreams == {s \in Streams : Len(s) < MaxLen}

BufSizes == (0..MaxBuf) \cup {DefaultBufsize}

Timeouts == {NoTimeout, 1}

NoStatus == <<"none", 0>>

\* No such option on the command line, or init() is done with it.
NoOpt == <<"none">>

(* --------------------------- pure functions ----------------------------- *)

\* Faulty variant of find_last: the first occurrence instead of the last.
find_first(data, size, ch) ==
    IF \E i \in 0..(size - 1) : data[i + 1] = ch
      THEN CHOOSE i \in 0..(size - 1) :
              /\ data[i + 1] = ch
              /\ \A j \in 0..(i - 1) : data[j + 1] # ch
      ELSE -1

\* find_last: scan data[size-1] down to data[0]; index of the last ch or -1.
RECURSIVE find_last_from(_, _, _)
find_last_from(data, p, ch) ==
    IF p < 0 THEN p
    ELSE IF data[p + 1] = ch THEN p
    ELSE find_last_from(data, p - 1, ch)

find_last(data, size, ch) == find_last_from(data, size - 1, ch)

\* Faulty variant of pipe_lines_use: the newline itself is left out.
pipe_lines_use_excl(data, size) ==
    LET end_pos == find_last(data, size, NL)
    IN  IF end_pos = -1 THEN 0 ELSE end_pos

\* Faulty variant of pipe_lines_use: without a newline everything is piped.
pipe_lines_use_all(data, size) ==
    LET end_pos == find_last(data, size, NL)
    IN  IF end_pos = -1 THEN size ELSE end_pos + 1

\* pipe_lines: number of bytes to pipe, 0 when data holds no newline.
pipe_lines_use(data, size) ==
    LET end_pos == find_last(data, size, NL)
    IN  IF end_pos = -1 THEN 0 ELSE end_pos + 1

\* Faulty variant of flush_due: pipe_lines is called after every read.
flush_due_always(newAvail, size, nb) == TRUE

\* run(): the condition under which pipe_lines is called after a read.
flush_due(newAvail, size, nb) == newAvail = size \/ nb = 0

\* Faulty variant of buffer_full: one byte short of the size counts as full.
buffer_full_early(newAvail, size) == newAvail >= size - 1

\* Faulty variant of buffer_full: the check is missing.
buffer_full_never(newAvail, size) == FALSE

\* run(): the buffer is full and nothing could be flushed.
buffer_full(newAvail, size) == newAvail = size

\* Faulty variant of free_space: the whole capacity is asked for at every read.
free_space_whole(size, av) == size

\* run(): the size handed to try_read, xpipe->bufsize - avail.
free_space(size, av) == size - av

\* Faulty variant of final_due: pipe_data is called even when nothing is pending.
final_due_always(av) == TRUE

\* run(): after the loop, pipe_data is called for what is still pending.
final_due(av) == av > 0

\* read(fd, buf + avail, n): the bytes land at offset avail.
store(b, off, bytes) ==
    [i \in 1..Max(Len(b), off + Len(bytes)) |->
        IF i > off /\ i <= off + Len(bytes) THEN bytes[i - off] ELSE b[i]]

\* Faulty variant of memmove: the remainder is not moved to the front.
memmove_skipped(b, used, n) == b

\* memmove(buf, buf + used, n).
memmove(b, used, n) ==
    [i \in 1..Len(b) |-> IF i <= n THEN b[i + used] ELSE b[i]]

\* Faulty variant of wait_result: the wait status is not looked at.
wait_result_ignored(st) == 0

\* pipe_data: result from the wait status.
wait_result(st) ==
    IF st[1] = "exited" /\ st[2] # 0 THEN -1 ELSE 0

\* Faulty variant of waitpid_returns: the wait does not block (WNOHANG).
waitpid_nohang(c) == TRUE

\* pipe_data: waitpid(pid, &status, 0) blocks until the child has terminated.
waitpid_returns(c) == c = "zombie"

\* Faulty variant of read_fatal: no failure of try_read ends the run.
read_fatal_never(e) == FALSE

\* run: a failure of try_read is fatal unless errno is EWOULDBLOCK.
read_fatal(e) == e # "EWOULDBLOCK"

\* Faulty variant of data_after: the data pointer stays where it was.
data_stuck(off, written) == off

\* write_all: data += written, as an offset into the chunk.
data_after(off, written) == off + written

\* write_all: the bytes one write() takes when it accepts k of them.
written_bytes(data, off, k) == SubSeq(data, off + 1, off + k)

\* main: exit status from run()'s return value.
main_status(rc) == IF rc = -1 THEN 1 ELSE 0

\* try_read: results of wait_input/read given the free space and the
\* number of bytes the stream still holds.
try_read(size, left, tmo) ==
    (IF tmo # NoTimeout
        THEN {[ret |-> -1, errno |-> "EWOULDBLOCK"],
              [ret |-> -1, errno |-> "EINTR"]}
        ELSE {})
    \cup {[ret |-> -1, errno |-> e] : e \in {"EINTR", "EIO"}}
    \cup (IF size = 0 \/ left = 0
             THEN {[ret |-> 0, errno |-> "NONE"]}
             ELSE {[ret |-> n, errno |-> "NONE"] : n \in 1..Min(size, left)})

(* ------------------------------- Init ----------------------------------- *)

\* The state after init() for an input out of streams and a -t option out
\* of tmos.
InitWith(streams, tmos) ==
    /\ input \in streams
    /\ bufsize \in BufSizes
    /\ timeout \in tmos
    /\ pos = 0
    /\ eof = FALSE
    /\ buf = <<>>
    /\ avail = 0
    /\ nb_read = 0
    /\ pc = "read"
    /\ caller = "none"
    /\ use = 0
    /\ wr = 0
    /\ pipe_wr = FALSE
    /\ child = "none"
    /\ status = NoStatus
    /\ pipe_ret = 2
    /\ chunks = <<>>
    /\ childIn = <<>>
    /\ heldAt = {}
    /\ errmsg = "none"
    /\ exitStatus = -1
    /\ live = 0
    /\ optb = NoOpt
    /\ optt = NoOpt
    /\ command = TRUE
    /\ wseen = {}
    /\ errno = "NONE"
    /\ idle = 0
    /\ quiet = 0
    /\ age = -1

Init == InitWith(Streams, Timeouts)

(* ------------------------- run(): ending ------------------------------- *)

\* run() returns rc; main returns.
Return(rc, msg) ==
    /\ pc' = "exit"
    /\ errmsg' = msg
    /\ exitStatus' = main_status(rc)

\* pipe_data(argv, data, size) is entered.
CallPipeData(from, size) ==
    /\ pc' = "open"
    /\ caller' = from
    /\ use' = size
    /\ wr' = 0
    /\ pipe_ret' = 2
    /\ wseen' = {}
    /\ UNCHANGED <<errmsg, exitStatus>>

\* The loop goes back to try_read.
Loop ==
    /\ pc' = "read"
    /\ UNCHANGED <<errmsg, exitStatus>>

pipeVars == <<pipe_wr, child, status, chunks, childIn, live>>

(* ------------------------- run(): one read ----------------------------- *)

\* try_read returned n > 0 bytes.
ReadDataStep ==
    /\ pc = "read"
    /\ \E r \in try_read(free_space(bufsize, avail), Len(input) - pos, timeout) :
        /\ r.ret > 0
        /\ LET bytes    == SubSeq(input, pos + 1, pos + r.ret)
               newBuf   == store(buf, avail, bytes)
               newAvail == avail + r.ret
               used     == IF flush_due(newAvail, bufsize, r.ret)
                             THEN pipe_lines_use(newBuf, newAvail) ELSE 0
           IN  /\ pos' = pos + r.ret
               /\ buf' = newBuf
               /\ avail' = newAvail
               /\ nb_read' = r.ret
               /\ IF used > 0
                    THEN /\ CallPipeData("lines", used)
                    ELSE IF buffer_full(newAvail, bufsize)
                    THEN /\ Return(-1, "buffer full")
                         /\ UNCHANGED <<caller, use, wr, pipe_ret, wseen>>
                    ELSE /\ Loop
                         /\ UNCHANGED <<caller, use, wr, pipe_ret, wseen>>
    /\ UNCHANGED <<input, eof, bufsize, timeout, heldAt>>
    /\ UNCHANGED pipeVars
    /\ UNCHANGED errno
    /\ UNCHANGED args

\* try_read timed out: -1 with errno EWOULDBLOCK, taken as nb_read = 0.
ReadTimeoutStep ==
    /\ pc = "read"
    /\ \E r \in try_read(free_space(bufsize, avail), Len(input) - pos, timeout) :
        /\ r.ret = -1
        /\ ~read_fatal(r.errno)
        /\ errno' = r.errno
        /\ LET used == IF flush_due(avail, bufsize, 0)
                         THEN pipe_lines_use(buf, avail) ELSE 0
           IN  /\ nb_read' = 0
               /\ heldAt' = IF used = 0 /\ avail > 0
                              THEN heldAt \cup {<<pos - avail, pos>>}
                              ELSE heldAt
               /\ IF used > 0
                    THEN /\ CallPipeData("lines", used)
                    ELSE IF buffer_full(avail, bufsize)
                    THEN /\ Return(-1, "buffer full")
                         /\ UNCHANGED <<caller, use, wr, pipe_ret, wseen>>
                    ELSE /\ Loop
                         /\ UNCHANGED <<caller, use, wr, pipe_ret, wseen>>
    /\ UNCHANGED <<input, pos, eof, bufsize, timeout, buf, avail>>
    /\ UNCHANGED pipeVars
    /\ UNCHANGED args

\* A read of data, time not observed.
ReadData == ReadDataStep /\ UNCHANGED clock

\* A timeout, time not observed: it may end any wait.
ReadTimeout == ReadTimeoutStep /\ UNCHANGED clock

\* try_read failed with any other errno.
ReadError ==
    /\ pc = "read"
    /\ \E r \in try_read(free_space(bufsize, avail), Len(input) - pos, timeout) :
        /\ r.ret = -1
        /\ read_fatal(r.errno)
        /\ errno' = r.errno
        /\ nb_read' = -1
        /\ Return(-1, "failed to read stdin")
    /\ UNCHANGED <<input, pos, eof, bufsize, timeout, buf, avail, caller, use,
                   wr, pipe_ret, heldAt>>
    /\ UNCHANGED pipeVars
    /\ UNCHANGED clock
    /\ UNCHANGED wseen
    /\ UNCHANGED args

\* try_read returned 0: the loop ends and what is pending goes to pipe_data.
ReadEof ==
    /\ pc = "read"
    /\ \E r \in try_read(free_space(bufsize, avail), Len(input) - pos, timeout) :
        /\ r.ret = 0
        /\ nb_read' = 0
        /\ eof' = TRUE
        /\ IF final_due(avail)
             THEN /\ CallPipeData("final", avail)
             ELSE /\ Return(0, "none")
                  /\ UNCHANGED <<caller, use, wr, pipe_ret, wseen>>
    /\ UNCHANGED <<input, pos, bufsize, timeout, buf, avail, heldAt>>
    /\ UNCHANGED pipeVars
    /\ UNCHANGED clock
    /\ UNCHANGED errno
    /\ UNCHANGED args

(* ---------------------- pipe_data and its callers ----------------------- *)

\* pipe_data returns ret to pipe_lines (and so to the loop of run) or to the
\* tail of run.
PipeReturn(ret) ==
    /\ pipe_ret' = ret
    /\ wseen' = {}
    /\ IF ret = -1
         THEN /\ Return(-1, "failed to write to pipe")
              /\ UNCHANGED <<buf, avail>>
         ELSE IF caller = "lines"
         THEN /\ avail' = avail - use
              /\ buf' = memmove(buf, use, avail - use)
              /\ IF buffer_full(avail - use, bufsize)
                   THEN Return(-1, "buffer full")
                   ELSE Loop
         ELSE /\ Return(0, "none")
              /\ UNCHANGED <<buf, avail>>

\* open_pipe: pipe() or fork() fails, nothing is spawned.
OpenPipeFail ==
    /\ pc = "open"
    /\ PipeReturn(-1)
    /\ UNCHANGED <<input, pos, eof, bufsize, timeout, nb_read, caller, use,
                   wr, pipe_wr, child, status, chunks, childIn, heldAt, live>>
    /\ UNCHANGED clock
    /\ UNCHANGED errno
    /\ UNCHANGED args

\* open_pipe: the child is forked; the parent closes the read end.
OpenPipe ==
    /\ pc = "open"
    /\ child' = "forked"
    /\ status' = NoStatus
    /\ chunks' = Append(chunks, SubSeq(buf, 1, use))
    /\ childIn' = Append(childIn, <<>>)
    /\ live' = live + 1
    /\ \/ /\ pipe_wr' = TRUE
          /\ pc' = IF use > 0 THEN "write" ELSE "close"
          /\ UNCHANGED <<buf, avail, pipe_ret, errmsg, exitStatus, wseen>>
       \/ /\ pipe_wr' = TRUE      \* close(pipe_rd) failed: pipe_wr and pid leak
          /\ PipeReturn(-1)
    /\ UNCHANGED <<input, pos, eof, bufsize, timeout, nb_read, caller, use,
                   wr, heldAt>>
    /\ UNCHANGED clock
    /\ UNCHANGED errno
    /\ UNCHANGED args

\* write_all: one write() accepts k of the remaining bytes.
Write ==
    /\ pc = "write"
    /\ wr < use
    /\ \E k \in 1..(use - wr) :
        /\ wr' = data_after(wr, k)
        /\ childIn' = [childIn EXCEPT ![Len(childIn)] =
                          @ \o written_bytes(buf, wr, k)]
        /\ pc' = IF wr' = use THEN "close" ELSE "write"
        /\ wseen' = IF k < use - wr THEN wseen \cup {"partial"} ELSE wseen
    /\ UNCHANGED <<input, pos, eof, bufsize, timeout, buf, avail, nb_read,
                   caller, use, pipe_wr, child, status, pipe_ret, chunks,
                   heldAt, errmsg, exitStatus, live>>
    /\ UNCHANGED clock
    /\ UNCHANGED errno
    /\ UNCHANGED args

\* write_all: write() is interrupted (EINTR) and retried.
WriteInterrupted ==
    /\ pc = "write"
    /\ wr < use
    /\ wseen' = wseen \cup {"EINTR"}
    /\ UNCHANGED <<input, pos, eof, bufsize, timeout, buf, avail, nb_read, pc,
                   caller, use, wr, pipe_wr, child, status, pipe_ret, chunks,
                   childIn, heldAt, errmsg, exitStatus, live>>
    /\ UNCHANGED clock
    /\ UNCHANGED errno
    /\ UNCHANGED args

\* write_all: write() fails otherwise; pipe_data returns -1.
WriteError ==
    /\ pc = "write"
    /\ wr < use
    /\ PipeReturn(-1)
    /\ UNCHANGED <<input, pos, eof, bufsize, timeout, nb_read, caller, use,
                   wr, pipe_wr, child, status, chunks, childIn, heldAt, live>>
    /\ UNCHANGED clock
    /\ UNCHANGED errno
    /\ UNCHANGED args

\* Faulty variant of Close: pipe_data goes on to waitpid with the write end
\* still open.
Close_skipped ==
    /\ pc = "close"
    /\ pc' = "wait"
    /\ UNCHANGED <<input, pos, eof, bufsize, timeout, buf, avail, nb_read,
                   caller, use, wr, pipe_wr, child, status, pipe_ret, chunks,
                   childIn, heldAt, errmsg, exitStatus, live>>
    /\ UNCHANGED clock
    /\ UNCHANGED errno
    /\ wseen' = {}
    /\ UNCHANGED args

\* pipe_data: close(pipe_wr).
Close ==
    /\ pc = "close"
    /\ pipe_wr' = FALSE
    /\ pc' = "wait"
    /\ UNCHANGED <<input, pos, eof, bufsize, timeout, buf, avail, nb_read,
                   caller, use, wr, child, status, pipe_ret, chunks, childIn,
                   heldAt, errmsg, exitStatus, live>>
    /\ UNCHANGED clock
    /\ UNCHANGED errno
    /\ wseen' = {}
    /\ UNCHANGED args

\* pipe_data: close(pipe_wr) fails.
CloseError ==
    /\ pc = "close"
    /\ PipeReturn(-1)
    /\ UNCHANGED <<input, pos, eof, bufsize, timeout, nb_read, caller, use,
                   wr, pipe_wr, child, status, chunks, childIn, heldAt, live>>
    /\ UNCHANGED clock
    /\ UNCHANGED errno
    /\ UNCHANGED args

\* pipe_data: waitpid(pid, &status, 0) returns once the child has
\* terminated, and collects its status.
Wait ==
    /\ pc = "wait"
    /\ waitpid_returns(child)
    /\ child' = IF child = "zombie" THEN "reaped" ELSE child
    /\ live' = IF child = "zombie" THEN live - 1 ELSE live
    /\ PipeReturn(wait_result(status))
    /\ UNCHANGED <<input, pos, eof, bufsize, timeout, nb_read, caller, use,
                   wr, pipe_wr, status, chunks, childIn, heldAt>>
    /\ UNCHANGED clock
    /\ UNCHANGED errno
    /\ UNCHANGED args

\* pipe_data: waitpid() fails.
WaitError ==
    /\ pc = "wait"
    /\ PipeReturn(-1)
    /\ UNCHANGED <<input, pos, eof, bufsize, timeout, nb_read, caller, use,
                   wr, pipe_wr, child, status, chunks, childIn, heldAt, live>>
    /\ UNCHANGED clock
    /\ UNCHANGED errno
    /\ UNCHANGED args

(* ------------------------------ the child ------------------------------- *)

parentVars == <<input, pos, eof, bufsize, timeout, buf, avail, nb_read, pc,
                caller, use, wr, pipe_wr, pipe_ret, chunks, childIn, heldAt,
                errmsg, exitStatus, live, wseen>>

\* open_pipe, child side: close(pipe_wr), dup2 and execvp succeed.
ChildExec ==
    /\ child = "forked"
    /\ command
    /\ child' = "running"
    /\ UNCHANGED status
    /\ UNCHANGED parentVars
    /\ UNCHANGED clock
    /\ UNCHANGED errno
    /\ UNCHANGED args

\* open_pipe, child side: close, dup2 or execvp fails: exit(exit_panic).
ChildPanic ==
    /\ child = "forked"
    /\ child' = "zombie"
    /\ status' = <<"exited", exit_panic>>
    /\ UNCHANGED parentVars
    /\ UNCHANGED clock
    /\ UNCHANGED errno
    /\ UNCHANGED args

\* The command exits by itself.
ChildExit ==
    /\ child = "running"
    /\ child' = "zombie"
    /\ \E c \in CommandCodes : status' = <<"exited", c>>
    /\ UNCHANGED parentVars
    /\ UNCHANGED clock
    /\ UNCHANGED errno
    /\ UNCHANGED args

\* The child is terminated by a signal.
ChildKilled ==
    /\ child \in {"forked", "running"}
    /\ child' = "zombie"
    /\ \E sig \in Signals : status' = <<"signaled", sig>>
    /\ UNCHANGED parentVars
    /\ UNCHANGED clock
    /\ UNCHANGED errno
    /\ UNCHANGED args

(* ------------------------------- Next ----------------------------------- *)

Next ==
    \/ ReadData
    \/ ReadTimeout
    \/ ReadError
    \/ ReadEof
    \/ OpenPipeFail
    \/ OpenPipe
    \/ Write
    \/ WriteInterrupted
    \/ WriteError
    \/ Close
    \/ CloseError
    \/ Wait
    \/ WaitError
    \/ ChildExec
    \/ ChildPanic
    \/ ChildExit
    \/ ChildKilled

Spec == Init /\ [][Next]_vars

(* ------------------------- fair scheduling ----------------------------- *)

\* The command reads its input to the end and then exits.
ChildExitAtEof == ~pipe_wr /\ ChildExit

\* The input is finite and arrives, the blocking calls of the parent return,
\* and every command starts, reads its input to the end and exits.
Fairness ==
    /\ WF_vars(ReadData)
    /\ WF_vars(ReadEof)
    /\ WF_vars(OpenPipe)
    /\ WF_vars(Write)
    /\ WF_vars(Close)
    /\ WF_vars(Wait)
    /\ WF_vars(ChildExec)
    /\ WF_vars(ChildExitAtEof)

FairInit == InitWith(ShortStreams, Timeouts)

FairSpec == FairInit /\ [][Next]_vars /\ Fairness

(* ------------------------- time observed ------------------------------- *)

\* The clocks stop counting here.
AgeCap == MaxTimeout + 1

\* The -t options considered, in clock ticks.
TimedTimeouts == 1..MaxTimeout

\* Faulty variant of select_restart: the wait goes on where it was.
select_resume(elapsed) == elapsed

\* wait_input hands select the whole timeout at every call: the time
\* waited so far starts again at nothing.
select_restart(elapsed) == 0

\* The latest moment of a wait at which data is found ready: at the call,
\* or before the timeout has passed.
ready_until(tmo) == Max(tmo - 1, 0)

\* Time passes while select waits; select returns when the timeout is over.
Tick ==
    /\ pc = "read"
    /\ idle < timeout
    /\ idle' = idle + 1
    /\ quiet' = Min(quiet + 1, AgeCap)
    /\ age' = IF age = -1 THEN -1 ELSE Min(age + 1, AgeCap)
    /\ UNCHANGED <<input, pos, eof, bufsize, timeout, buf, avail, nb_read, pc,
                   caller, use, wr, pipe_wr, child, status, pipe_ret, chunks,
                   childIn, heldAt, errmsg, exitStatus, live>>
    /\ UNCHANGED errno
    /\ UNCHANGED wseen
    /\ UNCHANGED args

\* select found data in time and read returned it.
TimedReadData ==
    /\ idle <= ready_until(timeout)
    /\ ReadDataStep
    /\ idle' = select_restart(idle)
    /\ quiet' = 0
    /\ age' = IF flush_due(avail', bufsize, nb_read') THEN -1
              ELSE IF age = -1 THEN 0 ELSE age

\* select returned 0: the whole timeout passed in this wait.
TimedReadTimeout ==
    /\ idle = timeout
    /\ ReadTimeoutStep
    /\ idle' = select_restart(idle)
    /\ quiet' = quiet
    /\ age' = -1

TimedNext ==
    \/ Tick
    \/ TimedReadData
    \/ TimedReadTimeout
    \/ ReadError
    \/ ReadEof
    \/ OpenPipeFail
    \/ OpenPipe
    \/ Write
    \/ WriteInterrupted
    \/ WriteError
    \/ Close
    \/ CloseError
    \/ Wait
    \/ WaitError
    \/ ChildExec
    \/ ChildPanic
    \/ ChildExit
    \/ ChildKilled

TimedInit == InitWith(ShortStreams, TimedTimeouts)

TimedSpec == TimedInit /\ [][TimedNext]_vars

(* ------------------------- the command line ---------------------------- *)

\* parse_duration: the limit handed to parse_uint.
DurationMax == 2147483647

\* parse_size: the limit SIZE_MAX lies beyond every text considered.
NoLimit == -1

DigitValue ==
    ("0" :> 0) @@ ("1" :> 1) @@ ("2" :> 2) @@ ("3" :> 3) @@ ("4" :> 4) @@
    ("5" :> 5) @@ ("6" :> 6) @@ ("7" :> 7) @@ ("8" :> 8) @@ ("9" :> 9)

\* The first index from i on at which str has no character of set.
RECURSIVE span(_, _, _)
span(str, i, set) ==
    IF i <= Len(str) /\ str[i] \in set THEN span(str, i + 1, set) ELSE i

\* The value of the digits str[i .. j - 1], after acc.
RECURSIVE digits_value(_, _, _, _)
digits_value(str, i, j, acc) ==
    IF i >= j THEN acc
    ELSE digits_value(str, i + 1, j, acc * 10 + DigitValue[str[i]])

\* strtoimax(str, &end, 10): white space, a sign, digits; end is the number
\* of characters taken, 0 when there is no digit. No text considered
\* reaches INTMAX_MAX.
strtoimax(str) ==
    LET i0 == span(str, 1, {" "})
        signed == i0 <= Len(str) /\ str[i0] \in {"+", "-"}
        i1 == IF signed THEN i0 + 1 ELSE i0
        j  == span(str, i1, DOMAIN DigitValue)
        v  == digits_value(str, i1, j, 0)
    IN  IF j = i1
          THEN [result |-> 0, end |-> 0]
          ELSE [result |-> IF signed /\ str[i0] = "-" THEN 0 - v ELSE v,
                end |-> j - 1]

\* parse_uint: ret is 0 with the value, or -1.
parse_uint(str, limit) ==
    LET r == strtoimax(str)
    IN  IF r.end = 0 THEN [ret |-> -1, value |-> 0]
        ELSE IF r.end # Len(str) THEN [ret |-> -1, value |-> 0]
        ELSE IF r.result < 0 THEN [ret |-> -1, value |-> 0]
        ELSE IF limit # NoLimit /\ r.result > limit
          THEN [ret |-> -1, value |-> 0]
        ELSE [ret |-> 0, value |-> r.result]

parse_size(str) == parse_uint(str, NoLimit)

parse_duration(str) == parse_uint(str, DurationMax)

\* init(), case 'b': the size after the option, if there is one.
size_option(text, dflt) ==
    IF text = NoOpt THEN [ret |-> 0, value |-> dflt] ELSE parse_size(text)

\* init(), case 't': the timeout after the option, if there is one.
duration_option(text, dflt) ==
    IF text = NoOpt THEN [ret |-> 0, value |-> dflt] ELSE parse_duration(text)

\* The option texts considered.
OptTexts ==
    {<<"0">>, <<"1">>, <<"2">>, <<"1", "2">>, <<"+", "1">>, <<" ", "1">>,
     <<"-", "0">>, <<"-", "1">>, <<"1", "x">>, <<"x">>, <<"-">>, <<>>}

\* The inputs considered where the command line is parsed.
ConfigStreams == {s \in Streams : Len(s) < MaxBuf}

\* main enters init(): the defaults are in place, nothing is parsed.
ConfigInit ==
    /\ input \in ConfigStreams
    /\ optb \in OptTexts \cup {NoOpt}
    /\ optt \in OptTexts \cup {NoOpt}
    /\ command \in BOOLEAN
    /\ bufsize = DefaultBufsize
    /\ timeout = NoTimeout
    /\ pos = 0
    /\ eof = FALSE
    /\ buf = <<>>
    /\ avail = 0
    /\ nb_read = 0
    /\ pc = "init"
    /\ caller = "none"
    /\ use = 0
    /\ wr = 0
    /\ pipe_wr = FALSE
    /\ child = "none"
    /\ status = NoStatus
    /\ pipe_ret = 2
    /\ chunks = <<>>
    /\ childIn = <<>>
    /\ heldAt = {}
    /\ errmsg = "none"
    /\ exitStatus = -1
    /\ live = 0
    /\ wseen = {}
    /\ errno = "NONE"
    /\ idle = 0
    /\ quiet = 0
    /\ age = -1

\* What init() leaves untouched.
runVars == <<input, pos, eof, buf, avail, nb_read, caller, use, wr, pipe_wr,
             child, status, pipe_ret, chunks, childIn, heldAt, live, command,
             wseen, errno>>

\* init(): the options are parsed, -b before -t; the buffer is allocated.
Configure ==
    /\ pc = "init"
    /\ LET b == size_option(optb, bufsize)
           t == duration_option(optt, timeout)
       IN  IF b.ret = -1
             THEN /\ Return(-1, "invalid buffer size")
                  /\ UNCHANGED <<bufsize, timeout>>
             ELSE IF t.ret = -1
             THEN /\ Return(-1, "invalid timeout")
                  /\ bufsize' = b.value
                  /\ UNCHANGED timeout
             ELSE /\ bufsize' = b.value
                  /\ timeout' = t.value
                  /\ pc' = "read"
                  /\ UNCHANGED <<errmsg, exitStatus>>
    /\ optb' = NoOpt
    /\ optt' = NoOpt
    /\ UNCHANGED runVars
    /\ UNCHANGED clock

\* init(): the options are parsed but malloc returns NULL.
ConfigureNoMemory ==
    /\ pc = "init"
    /\ size_option(optb, bufsize).ret = 0
    /\ duration_option(optt, timeout).ret = 0
    /\ bufsize' = size_option(optb, bufsize).value
    /\ timeout' = duration_option(optt, timeout).value
    /\ Return(-1, "buffer allocation failed")
    /\ optb' = NoOpt
    /\ optt' = NoOpt
    /\ UNCHANGED runVars
    /\ UNCHANGED clock

ConfigNext ==
    \/ Configure
    \/ ConfigureNoMemory
    \/ ReadData
    \/ ReadTimeout
    \/ ReadError
    \/ ReadEof
    \/ OpenPipeFail
    \/ OpenPipe
    \/ Write
    \/ WriteInterrupted
    \/ WriteError
    \/ Close
    \/ CloseError
    \/ Wait
    \/ WaitError
    \/ ChildExec
    \/ ChildPanic
    \/ ChildExit
    \/ ChildKilled

ConfigSpec == ConfigInit /\ [][ConfigNext]_vars

(* ------------------------- notions of the claims ------------------------ *)

\* The pending region buf[0, avail).
Pending == SubSeq(buf, 1, avail)

\* The bytes read() has delivered so far.
ReadSoFar == SubSeq(input, 1, pos)

\* Everything handed to child invocations, in invocation order.
Delivered == Flatten(chunks)

HasNL(s) == \E i \in 1..Len(s) : s[i] = NL

\* Offset of the last newline of s (s holds one).
LastNL(s) ==
    CHOOSE p \in 0..(Len(s) - 1) :
        /\ s[p + 1] = NL
        /\ \A j \in (p + 2)..Len(s) : s[j] # NL

\* Stream offset at which the i-th chunk ends.
Boundary(i) == Len(Flatten(SubSeq(chunks, 1, i)))

\* pipe_data is running.
InPipeData == pc \in {"open", "write", "close", "wait"}

\* The child has terminated by exit with a non-zero status.
FailingStatus == status[1] = "exited" /\ status[2] # 0

(* -------------------------------- C1 ------------------------------------ *)

\* C1 (order preservation): at the head of the loop, and when pipe_data is
\* entered, the chunks handed to children followed by buf[0, avail) are the
\* bytes read so far; once a child is spawned for buf[0, use) the same holds
\* with buf[use, avail); and when run() ends successfully the chunks, and the
\* bytes the children received, concatenated in invocation order are the
\* input.  The last part is for a buffer capacity >= 1, the Configuration of
\* the specification: with bufsize 0 the read of 0 bytes returns 0 and run()
\* succeeds without reading anything.
C1_OrderPreservation ==
    /\ pc \in {"read", "open"} => Delivered \o Pending = ReadSoFar
    /\ pc \in {"write", "close", "wait"} =>
          Delivered \o SubSeq(buf, use + 1, avail) = ReadSoFar
    /\ (bufsize >= 1 /\ pc = "exit" /\ exitStatus = 0) =>
          /\ Delivered = input
          /\ Flatten(childIn) = input

\* A successful run over at least three bytes with a timeout configured that
\* made at least two invocations.
C1_Witness ==
    /\ pc = "exit"
    /\ exitStatus = 0
    /\ timeout # NoTimeout
    /\ Len(input) >= 3
    /\ Len(chunks) >= 2

(* -------------------------------- C2 ------------------------------------ *)

\* C2 (newline boundary): every chunk handed to a child ends with the
\* newline, except possibly the last one when it is the chunk handed over by
\* the tail of run() after read() returned 0.
C2_NewlineBoundary ==
    \A i \in 1..Len(chunks) :
        \/ /\ chunks[i] # <<>>
           /\ chunks[i][Len(chunks[i])] = NL
        \/ /\ i = Len(chunks)
           /\ eof
           /\ caller = "final"

\* A successful run whose last of several chunks is an unterminated line.
C2_Witness ==
    /\ pc = "exit"
    /\ exitStatus = 0
    /\ Len(chunks) >= 2
    /\ chunks[Len(chunks)][Len(chunks[Len(chunks)])] # NL

(* -------------------------------- C3 ------------------------------------ *)

\* A chunk boundary never cuts a range that was pending, without newline, at
\* a timeout; it may end such a range only as the end-of-stream chunk.
HeldRangesUncut ==
    \A h \in heldAt : \A i \in 1..Len(chunks) :
        /\ ~(h[1] < Boundary(i) /\ Boundary(i) < h[2])
        /\ Boundary(i) = h[2] => (i = Len(chunks) /\ eof /\ caller = "final")

\* C3 (timeout non-truncation): a timeout that finds no newline in the
\* pending region spawns no child and leaves buf and avail unchanged; and the
\* bytes pending then are never delivered as a chunk cut at the timeout: the
\* chunk that holds them extends to a later newline or is the end-of-stream
\* chunk.
C3_TimeoutNonTruncation ==
    /\ [][(ReadTimeout /\ ~HasNL(Pending)) =>
             /\ UNCHANGED <<buf, avail, chunks, childIn, child>>
             /\ pc' # "open"]_vars
    /\ []HeldRangesUncut

\* A partial line was pending at a timeout and has been delivered together
\* with the bytes that completed it.
C3_Witness ==
    /\ pc = "exit"
    /\ exitStatus = 0
    /\ \E h \in heldAt : h[1] = 0 /\ h[2] > 0 /\ h[2] < Len(input)
    /\ chunks = <<input>>
    /\ input[Len(input)] = NL

(* -------------------------------- C4 ------------------------------------ *)

\* C4 (flush of complete lines on timeout): a timeout that finds a newline
\* in the pending region calls pipe_data for buf[0, p+1), p the offset of
\* the last newline; one child is spawned in that call, for exactly these
\* bytes; when the call returns to the loop the bytes after p are at the
\* front of the buffer, avail is smaller by p+1 and no newline is pending.
C4_TimeoutFlush ==
    /\ [][(ReadTimeout /\ HasNL(Pending)) =>
             /\ pc' = "open"
             /\ caller' = "lines"
             /\ use' = LastNL(Pending) + 1
             /\ UNCHANGED <<buf, avail, chunks>>]_vars
    /\ [][chunks' # chunks =>
             /\ pc = "open"
             /\ pc' # "open"
             /\ chunks' = Append(chunks, SubSeq(buf, 1, use))]_vars
    /\ [][(pc # "read") => (pc' # "open")]_vars
    /\ [][(InPipeData /\ caller = "lines" /\ nb_read = 0 /\ pc' = "read") =>
             /\ chunks' = chunks
             /\ chunks[Len(chunks)] = SubSeq(buf, 1, use)
             /\ avail' = avail - use
             /\ SubSeq(buf', 1, avail') = SubSeq(buf, use + 1, avail)
             /\ ~HasNL(SubSeq(buf', 1, avail'))]_vars

\* A timeout flush of two lines has returned to the loop with a remainder.
C4_Witness ==
    /\ pc = "read"
    /\ caller = "lines"
    /\ nb_read = 0
    /\ pipe_ret = 0
    /\ avail > 0
    /\ Len(chunks) = 1
    /\ Cardinality({i \in 1..Len(chunks[1]) : chunks[1][i] = NL}) >= 2

(* -------------------------------- C5 ------------------------------------ *)

C6_ExitStatusMirrorsChild ==
    (pc = "exit" /\ child = "reaped" /\ FailingStatus) =>
        exitStatus = status[2]

(* -------------------------------- C7 ------------------------------------ *)

\* C7 (pipe_data success): pipe_data returns 0 if and only if the child has
\* been waited for and exited normally with status 0.
C7_SuccessIffExitZero ==
    /\ pipe_ret = 0 => (child = "reaped" /\ status = <<"exited", 0>>)
    /\ (pipe_ret # 2 /\ child = "reaped" /\ status = <<"exited", 0>>) =>
          pipe_ret = 0

(* -------------------------------- C8 ------------------------------------ *)

\* C8 (oversized line): when a read leaves exactly bufsize bytes pending
\* with no newline among them, run() fails with "buffer full" and xpipe
\* exits with 1 without spawning a child; the pending bytes are in no chunk,
\* and after the exit no child is ever spawned.
C8_OversizedLineFatal ==
    /\ [][((ReadData \/ ReadTimeout) /\ avail' = bufsize
              /\ ~HasNL(SubSeq(buf', 1, avail'))) =>
             /\ pc' = "exit"
             /\ errmsg' = "buffer full"
             /\ exitStatus' = 1
             /\ UNCHANGED <<chunks, child>>]_vars
    /\ [](errmsg = "buffer full" =>
             /\ pc = "exit"
             /\ exitStatus = 1
             /\ avail = bufsize
             /\ ~HasNL(Pending)
             /\ Delivered \o Pending = ReadSoFar)
    /\ [][pc = "exit" => (pc' = "exit" /\ chunks' = chunks)]_vars

\* A line filled a buffer of at least two bytes after an earlier flush.
C8_Witness ==
    /\ errmsg = "buffer full"
    /\ bufsize >= 2
    /\ chunks # <<>>
    /\ avail = bufsize

(* -------------------------------- C9 ------------------------------------ *)

\* C9 (block size bound): no chunk handed to a child is longer than bufsize.
C9_BlockSizeBound ==
    \A i \in 1..Len(chunks) : Len(chunks[i]) <= bufsize

\* A chunk as long as a buffer of at least two bytes.
C9_Witness ==
    /\ bufsize >= 2
    /\ \E i \in 1..Len(chunks) : Len(chunks[i]) = bufsize

(* -------------------------------- C10 ----------------------------------- *)

\* C10 (empty input, single newline): no child is spawned for an empty
\* chunk; with empty input no child is spawned and the exit after
\* end-of-stream is 0; for bufsize >= 1 and the input "\n" at most one child
\* is spawned, for "\n", and a successful run has spawned exactly that one,
\* which received "\n".
C10_EmptyAndNewline ==
    /\ \A i \in 1..Len(chunks) : chunks[i] # <<>>
    /\ input = <<>> =>
          /\ chunks = <<>>
          /\ (pc = "exit" /\ eof) => exitStatus = 0
    /\ (input = <<NL>> /\ bufsize >= 1) =>
          /\ Len(chunks) <= 1
          /\ chunks # <<>> => chunks[1] = <<NL>>
          /\ (pc = "exit" /\ exitStatus = 0) =>
                (chunks = << <<NL>> >> /\ childIn = << <<NL>> >>)

\* The input "\n" has been delivered by a successful run.
C10_Witness ==
    /\ input = <<NL>>
    /\ pc = "exit"
    /\ exitStatus = 0
    /\ chunks = << <<NL>> >>

\* Empty input has ended a run at end-of-stream.
C10_WitnessEmpty ==
    /\ input = <<>>
    /\ bufsize >= 1
    /\ pc = "exit"
    /\ eof

(* -------------------------------- C11 ----------------------------------- *)

\* The input not yet delivered when the i-th chunk is handed over.
RestBefore(i) == SubSeq(input, Boundary(i - 1) + 1, Len(input))

\* The i-th chunk is the one the tail of run() hands over at end-of-stream:
\* with it everything that was read has been handed over.
IsFinalChunk(i) ==
    i = Len(chunks) /\ eof /\ caller = "final" /\ Boundary(i) = pos

\* C11 (segmentation at the buffer boundary, no timeout): without a
\* timeout, a chunk handed over by the loop is cut only when bufsize bytes
\* of the undelivered input have filled the buffer, and it is the prefix of
\* the undelivered input that ends at the last newline among these bufsize
\* bytes; the chunk handed over at end-of-stream is the whole remainder,
\* which is non-empty.
C11_BufferBoundarySegmentation ==
    timeout = NoTimeout =>
        \A i \in 1..Len(chunks) :
            IF IsFinalChunk(i)
              THEN /\ chunks[i] = RestBefore(i)
                   /\ chunks[i] # <<>>
              ELSE /\ Len(RestBefore(i)) >= bufsize
                   /\ HasNL(SubSeq(RestBefore(i), 1, bufsize))
                   /\ chunks[i] = SubSeq(RestBefore(i), 1,
                          LastNL(SubSeq(RestBefore(i), 1, bufsize)) + 1)

\* Without timeout, a run has cut a first chunk before the end of the full
\* buffer and has delivered an unterminated remainder at end-of-stream.
C11_Witness ==
    /\ timeout = NoTimeout
    /\ pc = "exit"
    /\ exitStatus = 0
    /\ Len(chunks) >= 2
    /\ Len(chunks[1]) < bufsize
    /\ IsFinalChunk(Len(chunks))
    /\ chunks[Len(chunks)][Len(chunks[Len(chunks)])] # NL

(* -------------------------------- C12 ----------------------------------- *)

\* The chunks of a stream for a capacity, computed from these two alone:
\* while at least cap bytes are left, cut after the last newline of the
\* first cap bytes (and stop if they hold none); then the rest, if any.
RECURSIVE Segmentation(_, _)
Segmentation(rest, cap) ==
    IF cap = 0 THEN <<>>
    ELSE IF Len(rest) < cap
      THEN (IF rest = <<>> THEN <<>> ELSE <<rest>>)
    ELSE IF ~HasNL(SubSeq(rest, 1, cap)) THEN <<>>
    ELSE LET n == LastNL(SubSeq(rest, 1, cap)) + 1
         IN  <<SubSeq(rest, 1, n)>>
                \o Segmentation(SubSeq(rest, n + 1, Len(rest)), cap)

IsPrefix(s, t) == Len(s) <= Len(t) /\ s = SubSeq(t, 1, Len(s))

\* C12 (deterministic segmentation): without a timeout the sequence of
\* chunks is a function of the input and bufsize only, whatever each read
\* returns: at any time it is a prefix of Segmentation(input, bufsize), and
\* a run that ended successfully or with "buffer full" has produced all of
\* it.  Two runs on the same input therefore cut the same chunks.
C12_DeterministicSegmentation ==
    timeout = NoTimeout =>
        /\ IsPrefix(chunks, Segmentation(input, bufsize))
        /\ (pc = "exit" /\ (exitStatus = 0 \/ errmsg = "buffer full")) =>
              chunks = Segmentation(input, bufsize)

\* Without timeout, a buffer of at least two bytes has been filled by a
\* read of a single byte after other reads, and is flushed as a later chunk.
C12_Witness ==
    /\ timeout = NoTimeout
    /\ pc = "open"
    /\ caller = "lines"
    /\ bufsize >= 2
    /\ avail = bufsize
    /\ nb_read = 1
    /\ Len(chunks) >= 1

(* -------------------------------- C13 ----------------------------------- *)

\* C13 (strict seriality): at most one child has been forked and not yet
\* waited for; a child is spawned (pipe_data is entered) and input is read
\* only when every child spawned before has been waited for; no step
\* between the fork and the collection of the child consumes input.
C13_StrictSeriality ==
    /\ [](live <= 1)
    /\ [](pc \in {"read", "open"} => (live = 0 /\ child \in {"none", "reaped"}))
    /\ [][live' > live => (live = 0 /\ live' = 1)]_vars
    /\ [][live > 0 => pos' = pos]_vars

\* A second child runs after the first one was waited for, with input left.
C13_Witness ==
    /\ Len(chunks) = 2
    /\ live = 1
    /\ child = "running"
    /\ pc = "write"
    /\ pos < Len(input)

\* A flush decision is still to come for bytes received since the latest one.
CycleOpen == pc = "read" /\ age >= 0

\* C14 as stated: the deadline is armed once per flush cycle, at the first
\* byte received after a flush, and later reads do not extend it, so a flush
\* decision is taken no later than the timeout after that first byte.
C14_FixedIdleDeadline == CycleOpen => age <= timeout

\* C14 as the code has it: every try_read starts a new wait of the whole
\* timeout, so a flush decision by timeout is taken exactly when a whole
\* timeout has passed in one wait and no byte was received for at least
\* that long; every read of data starts the wait again, and bytes arriving
\* at shorter intervals put the decision off beyond the timeout after the
\* first byte of the cycle.
C14_IdleTimeoutPerRead ==
    /\ [](idle <= timeout)
    /\ [][TimedReadTimeout => (idle = timeout /\ quiet >= timeout)]_vars
    /\ [][TimedReadData => idle' = 0]_vars
    /\ [][(pc = "read" /\ pc' = "read" /\ age >= 0 /\ age' = -1) =>
             (nb_read' = 0 /\ quiet >= timeout)]_vars

\* Bytes kept arriving within the timeout: the cycle is still open later
\* than the timeout after its first byte, buffer not full, stream not over.
C14_Witness ==
    /\ CycleOpen
    /\ timeout = MaxTimeout
    /\ age > timeout
    /\ quiet < timeout
    /\ avail >= 2
    /\ avail < bufsize
    /\ ~eof
    /\ heldAt = {}

\* try_read has just failed with errno EINTR.
ReadInterrupted == pc = "read" /\ nb_read' = -1 /\ errno' = "EINTR"

\* C15: when waiting for or reading the input is interrupted (EINTR), the
\* read is tried again with avail and the pending bytes unchanged and the
\* run does not end.
C15_ReadInterruptionRetried ==
    [][ReadInterrupted => (pc' = "read" /\ avail' = avail /\ buf' = buf)]_vars

\* The child of the current pipe_data call exists (running or not yet
\* collected).
Spawned == child \in {"forked", "running", "zombie"}

\* The child of the current call has been handed the whole chunk.
ChunkWritten ==
    /\ wr = use
    /\ childIn[Len(childIn)] = chunks[Len(chunks)]
    /\ chunks[Len(chunks)] = SubSeq(buf, 1, use)

\* C16: within one pipe_data call the events come in the order spawn, write
\* of all chunk bytes, close of the write end, wait for the child; when the
\* call returns after the wait the child has terminated and been reaped and
\* the write end is closed.
C16_InvocationProtocol ==
    /\ [](pc = "open" => (~Spawned /\ ~pipe_wr /\ wr = 0))
    /\ [](pc = "write" => (Spawned /\ pipe_wr /\ wr < use))
    /\ [](pc = "close" => (Spawned /\ pipe_wr /\ ChunkWritten))
    /\ [](pc = "wait" => (Spawned /\ ~pipe_wr /\ ChunkWritten))
    /\ [][pc' = "write" => pc \in {"open", "write"}]_vars
    /\ [][pc' = "close" => pc \in {"write", "close"}]_vars
    /\ [][pc' = "wait" => pc \in {"close", "wait"}]_vars
    /\ [][pipe_wr' # pipe_wr =>
             (pc = IF pipe_wr THEN "close" ELSE "open")]_vars
    /\ [][Wait => (/\ child = "zombie"
                   /\ child' = "reaped"
                   /\ live' = 0
                   /\ ~pipe_wr'
                   /\ pipe_ret' = IF FailingStatus THEN -1 ELSE 0)]_vars

\* A call has returned after the wait with a child failure, an earlier call
\* with success.
C16_Witness ==
    /\ pc = "exit"
    /\ Len(chunks) = 2
    /\ pipe_ret = -1
    /\ child = "reaped"
    /\ FailingStatus
    /\ ~pipe_wr
    /\ live = 0

\* What the child of the current call has been given so far.
GivenToChild == childIn[Len(childIn)]

\* C17: under partial writes and interruptions write_all hands the child
\* exactly the bytes data[0, size), once each and in order, before it returns
\* 0; an interrupted write is tried again from the same offset, and any other
\* write error makes it return -1 with no further write.
C17_WriteAllExact ==
    /\ [](pc = "write" => (wr < use /\ GivenToChild = SubSeq(buf, 1, wr)))
    /\ [](pc \in {"close", "wait"} =>
            (GivenToChild = SubSeq(buf, 1, use) /\ Len(GivenToChild) = use))
    /\ [][WriteInterrupted =>
             (pc' = "write" /\ wr' = wr /\ childIn' = childIn)]_vars
    /\ [][WriteError =>
             (/\ pipe_ret' = -1
              /\ childIn' = childIn
              /\ pc' = "exit"
              /\ exitStatus' = 1
              /\ errmsg' = "failed to write to pipe")]_vars

\* write_all has returned 0 after a partial write and an interruption.
C17_Witness ==
    /\ pc = "close"
    /\ wseen = {"EINTR", "partial"}
    /\ use >= 2
    /\ GivenToChild = SubSeq(buf, 1, use)
    /\ Len(chunks) = 2

\* C18: with a finite input that reaches its end, reads that return data,
\* end-of-stream or a timeout, and commands that read their input to the end
\* and exit, run() terminates; every pipe_data call returns, and when
\* end-of-stream is read what is pending goes out as one final chunk and the
\* loop ends.
C18_Termination ==
    /\ <>(pc = "exit")
    /\ (InPipeData ~> ~InPipeData)
    /\ (pc = "wait" ~> (pc # "wait"))
    /\ [][(eof' /\ ~eof) =>
             IF avail > 0
               THEN pc' = "open" /\ caller' = "final" /\ use' = avail
               ELSE pc' = "exit" /\ exitStatus' = 0]_vars
    /\ [](pc = "exit" /\ eof /\ caller = "final" /\ pipe_ret = 0 =>
             (exitStatus = 0 /\ chunks[Len(chunks)] = Pending))

\* The run has ended after a final chunk that followed an earlier chunk.
C18_Witness ==
    /\ pc = "exit"
    /\ eof
    /\ caller = "final"
    /\ pipe_ret = 0
    /\ exitStatus = 0
    /\ Len(chunks) = 2
    /\ child = "reaped"

\* C19: 0 <= avail <= bufsize in every state; every read is asked for at
\* most bufsize - avail bytes; with bufsize >= 1 a read is issued only with
\* avail < bufsize, so a read that returns 0 is the end of the stream.
C19_PendingBufferBounds ==
    /\ [](0 <= avail /\ avail <= bufsize /\ Len(buf) <= bufsize)
    /\ [][pos' - pos <= bufsize - avail]_vars
    /\ [][pos' # pos => (nb_read' = pos' - pos /\ avail' = avail + nb_read')]_vars
    /\ [](pc = "read" /\ bufsize >= 1 => avail < bufsize)
    /\ [](eof /\ bufsize >= 1 => pos = Len(input))

\* A read is issued with one byte of space left, after a flush and with
\* input still to come.
C19_Witness ==
    /\ pc = "read"
    /\ bufsize >= 2
    /\ avail = bufsize - 1
    /\ Len(chunks) >= 1
    /\ pos < Len(input)

\* A try_read of this step has failed with an errno that is no timeout.
ReadFailed == pc = "read" /\ errno' \notin {"NONE", "EWOULDBLOCK"}

\* C20: when a read of the input fails with an error that is no timeout,
\* run() returns an error at once: no child is spawned for the bytes still
\* pending, complete lines or not, and the process exits with status 1.
C20_ReadErrorAborts ==
    /\ [][ReadFailed =>
             (/\ pc' = "exit"
              /\ exitStatus' = 1
              /\ errmsg' = "failed to read stdin"
              /\ chunks' = chunks
              /\ child' = child
              /\ live' = live
              /\ avail' = avail
              /\ buf' = buf)]_vars
    /\ [](errmsg = "failed to read stdin" =>
            (/\ pc = "exit"
             /\ exitStatus = 1
             /\ live = 0
             /\ Delivered \o Pending = ReadSoFar))

\* A read failed while a complete line was pending: nothing was spawned
\* for it.
C20_Witness ==
    /\ pc = "exit"
    /\ errmsg = "failed to read stdin"
    /\ errno = "EIO"
    /\ exitStatus = 1
    /\ HasNL(Pending)
    /\ chunks = <<>>

\* The -b text does not stand for a positive integer.
BadSize ==
    /\ optb # NoOpt
    /\ (parse_size(optb).ret = -1 \/ parse_size(optb).value < 1)

\* The -t text does not stand for a non-negative integer.
BadTimeout == optt # NoOpt /\ parse_duration(optt).ret = -1

\* init() is about to run on a command line the configuration rules out.
ConfigInvalid == pc = "init" /\ (BadSize \/ BadTimeout \/ ~command)

\* C21: with a buffer size that is no positive integer, a timeout that is no
\* non-negative integer or an empty command, the process exits with status 1
\* at once: no byte of input is read and no child is spawned.
C21_ConfigErrorsStop ==
    [][ConfigInvalid =>
         (/\ pc' = "exit"
          /\ exitStatus' = 1
          /\ pos' = 0
          /\ chunks' = <<>>)]_vars

\* Length of the part of the input after its last newline.
TailLen == IF HasNL(input) THEN Len(input) - LastNL(input) - 1 ELSE Len(input)

\* Length of the line that ends with the newline at input[i], newline
\* included.
LineLen(i) ==
    LET before == SubSeq(input, 1, i - 1)
    IN  IF HasNL(before) THEN i - LastNL(before) - 1 ELSE i

\* Every newline-terminated line fits the buffer and the unterminated rest
\* is shorter than the buffer.
LinesFit ==
    /\ \A i \in 1..Len(input) : input[i] = NL => LineLen(i) <= bufsize
    /\ TailLen < bufsize

\* C22 (buffer-full exactness): for bufsize >= 1 the run has ended with
\* "buffer full" exactly when the pending region holds bufsize bytes without
\* a newline; an input whose lines fit the buffer and whose unterminated rest
\* is shorter than the buffer never ends that way, for any sizes of reads and
\* any timeouts; an unterminated rest of exactly bufsize bytes is never
\* delivered at end-of-stream: once it is read whole the run has ended with
\* "buffer full".
C22_BufferFullExactness ==
    bufsize >= 1 =>
        /\ errmsg = "buffer full" <=> (avail = bufsize /\ ~HasNL(Pending))
        /\ LinesFit => errmsg # "buffer full"
        /\ TailLen = bufsize =>
              /\ ~eof
              /\ exitStatus # 0
              /\ pos = Len(input) => (pc = "exit" /\ errmsg = "buffer full")

\* An earlier line went out, then the unterminated rest filled the buffer.
C22_Witness ==
    /\ errmsg = "buffer full"
    /\ TailLen = bufsize
    /\ pos = Len(input)
    /\ Len(chunks) = 1
    /\ child = "reaped"
    /\ HasNL(input)
====
